---- MODULE Spec2Model ----
(***************************************************************************)
(* Model of count_lines.py: a recursive line counter for .cpp/.hpp files.  *)
(* Paths, file names and file contents are sequences of one-character      *)
(* strings, so that suffix tests, path joins and line counting are          *)
(* computed the way the program computes them.  Output streams are          *)
(* sequences of records, one record per printed line.                       *)
(***************************************************************************)
EXTENDS Integers, Sequences, FiniteSets, TLC

\* Longest argument list explored.
MaxRoots == 3

\* Width of the separator line, "=" * 40.
SepWidth == 40

-----------------------------------------------------------------------------
(* The file system the program runs against. *)

D_dot  == <<".">>
D_a    == <<"a">>
D_b    == <<"b">>
D_docs == <<"d">>
D_miss == <<"m">>
D_sub  == <<"s", "u", "b">>

F_x_cpp     == <<"x", ".", "c", "p", "p">>
F_r_md      == <<"r", ".", "m", "d">>
F_y_hpp     == <<"y", ".", "h", "p", "p">>
F_z_cpp_hpp == <<"z", ".", "c", "p", "p", ".", "h", "p", "p">>
F_dotcpp    == <<".", "c", "p", "p">>
F_hpp       == <<"h", "p", "p">>
F_n_txt     == <<"n", ".", "t", "x", "t">>
F_m_cpp     == <<"m", ".", "c", "p", "p">>

\* os.path.join(a, b) for a relative component b.
PathJoin(a, b) ==
    IF b # <<>> /\ b[1] = "/" THEN b
    ELSE IF a = <<>> \/ a[Len(a)] = "/" THEN a \o b
    ELSE a \o <<"/">> \o b

P_a_sub       == PathJoin(D_a, D_sub)
P_a_x_cpp     == PathJoin(D_a, F_x_cpp)
P_a_sub_y_hpp == PathJoin(P_a_sub, F_y_hpp)
P_b_z_cpp_hpp == PathJoin(D_b, F_z_cpp_hpp)
P_b_dotcpp    == PathJoin(D_b, F_dotcpp)
P_m_cpp       == F_m_cpp

\* Path resolution relative to the working directory: "./p" names "p".
RECURSIVE Norm(_)
Norm(p) ==
    IF Len(p) >= 2 /\ p[1] = "." /\ p[2] = "/" THEN Norm(SubSeq(p, 3, Len(p)))
    ELSE p

\* The directories that exist, with their entries in listing order.
Directories == {D_dot, D_a, P_a_sub, D_b, D_docs}

Listing(p) ==
    CASE Norm(p) = D_dot   -> [dirs |-> <<D_a, D_b, D_docs>>, files |-> <<F_m_cpp>>]
      [] Norm(p) = D_a     -> [dirs |-> <<D_sub>>, files |-> <<F_x_cpp, F_r_md>>]
      [] Norm(p) = P_a_sub -> [dirs |-> <<>>, files |-> <<F_y_hpp>>]
      [] Norm(p) = D_b     -> [dirs |-> <<>>, files |-> <<F_z_cpp_hpp, F_dotcpp, F_hpp>>]
      [] Norm(p) = D_docs  -> [dirs |-> <<>>, files |-> <<F_r_md, F_n_txt>>]
      [] OTHER             -> [dirs |-> <<>>, files |-> <<>>]

\* os.path.isdir(d)
IsDir(d) == Norm(d) \in Directories

\* Contents of the files whose text does not vary between runs of the model.
FixedContent(p) ==
    CASE Norm(p) = P_a_sub_y_hpp -> <<"x", "\n", "x", "\r", "\n", "x", "\r", "x", "\n", "x">>
      [] Norm(p) = P_b_z_cpp_hpp -> <<"x", "\n", "\n">>
      [] Norm(p) = P_b_dotcpp    -> <<>>
      [] Norm(p) = P_m_cpp       -> <<"x", "x", "\n", "x", "\n", "x", "\n", "x", "\n">>
      [] OTHER                   -> <<"x", "\n">>

\* Texts tried for a/x.cpp.
SampleContents == { <<>>, <<"x", "\n", "x">>, <<"\r", "\n", "x", "\r">> }

\* Matching files that may be unreadable.
MaybeUnreadable == {P_a_x_cpp, P_b_z_cpp_hpp}

\* Argument values tried on the command line.
ArgNames == {D_a, D_b, D_docs, D_miss}

RECURSIVE SeqsUpTo(_, _)
SeqsUpTo(S, n) ==
    IF n = 0 THEN { <<>> }
    ELSE LET shorter == SeqsUpTo(S, n - 1)
         IN  shorter \cup { Append(s, x) : s \in shorter, x \in S }

-----------------------------------------------------------------------------
VARIABLES
    argv,         \* positional arguments given on the command line
    disk,         \* the varying part of the file system
    pc,           \* "start", "loop", "walk", "done"
    dirs,         \* args.dirs
    i,            \* position of the for-loop of main in dirs
    total_cpp,    \* main's running totals
    total_hpp,
    walk,         \* what os.walk(root) yields for the root being scanned
    w,            \* position of the outer loop of count_lines in walk
    f,            \* position of the inner loop in walk[w].filenames
    cpp_lines,    \* count_lines' counters
    hpp_lines,
    stdout,       \* lines printed to standard output
    stderr,       \* lines printed to the error stream
    exit_status,  \* -1 while running, the exit status afterwards
    rerun,        \* TRUE in a second invocation over the same tree
    prev          \* what the previous invocation printed and totalled

vars == <<argv, disk, pc, dirs, i, total_cpp, total_hpp, walk, w, f,
          cpp_lines, hpp_lines, stdout, stderr, exit_status, rerun, prev>>

-----------------------------------------------------------------------------
(* Pure helpers. *)

Str_cpp == <<".", "c", "p", "p">>
Str_hpp == <<".", "h", "p", "p">>

\* str.endswith
EndsWith(s, suf) ==
    Len(s) >= Len(suf) /\ SubSeq(s, Len(s) - Len(suf) + 1, Len(s)) = suf

\* fname.endswith(('.cpp', '.hpp'))
Matches(fname) == EndsWith(fname, Str_cpp) \/ EndsWith(fname, Str_hpp)

\* sum(1 for _ in f) on a text file opened with universal newlines.
RECURSIVE CountLines(_)
CountLines(c) ==
    IF c = <<>> THEN 0
    ELSE IF c[1] = "\n" THEN 1 + CountLines(Tail(c))
    ELSE IF c[1] = "\r"
         THEN 1 + CountLines(IF Len(c) >= 2 /\ c[2] = "\n"
                             THEN SubSeq(c, 3, Len(c)) ELSE Tail(c))
    ELSE IF Len(c) = 1 THEN 1
    ELSE CountLines(Tail(c))

Content(p) == IF Norm(p) = P_a_x_cpp THEN disk.xcontent ELSE FixedContent(p)

\* open(path) and the read succeed
Readable(p) == Norm(p) \notin disk.unreadable

\* os.walk(root), top-down, without following links.
RECURSIVE Walk(_)
RECURSIVE WalkEach(_, _)
Walk(p) ==
    <<[dirpath |-> p, filenames |-> Listing(p).files]>>
        \o WalkEach(p, Listing(p).dirs)
WalkEach(p, ds) ==
    IF ds = <<>> THEN <<>>
    ELSE Walk(PathJoin(p, Head(ds))) \o WalkEach(p, Tail(ds))

\* The printed lines.
Banner(d)       == [kind |-> "banner", dir |-> d]
FileLine(p, n)  == [kind |-> "file", path |-> p, lines |-> n]
Summary(d, c, h) ==
    [kind |-> "summary", dir |-> d, cpp |-> c, hpp |-> h, sum |-> c + h]
Separator       == [kind |-> "sep", width |-> SepWidth]
Total(k, c, h, s) ==
    [kind |-> "total", k |-> k, cpp |-> c, hpp |-> h, sum |-> s]
ErrorLine(d)    == [kind |-> "error", dir |-> d]
Warning(p)      == [kind |-> "warning", path |-> p]

-----------------------------------------------------------------------------
Init ==
    /\ argv \in SeqsUpTo(ArgNames, MaxRoots)
    /\ disk \in [unreadable : SUBSET MaybeUnreadable, xcontent : SampleContents]
    /\ pc = "start"
    /\ dirs = <<>>
    /\ i = 1
    /\ total_cpp = 0
    /\ total_hpp = 0
    /\ walk = <<>>
    /\ w = 1
    /\ f = 1
    /\ cpp_lines = 0
    /\ hpp_lines = 0
    /\ stdout = <<>>
    /\ stderr = <<>>
    /\ exit_status = -1
    /\ rerun = FALSE
    /\ prev = [stdout |-> <<>>, total_cpp |-> 0, total_hpp |-> 0]

\* The file the inner loop is at.
AtFile == pc = "walk" /\ w <= Len(walk) /\ f <= Len(walk[w].filenames)
CurName == walk[w].filenames[f]
CurPath == PathJoin(walk[w].dirpath, CurName)

\* MainInit without lines 46-47: the totals keep what they held.
MainInit_KeepTotals ==
    /\ pc = "start"
    /\ dirs' = IF argv = <<>> THEN <<D_dot>> ELSE argv
    /\ i' = 1
    /\ pc' = "loop"
    /\ UNCHANGED <<argv, disk, total_cpp, total_hpp, walk, w, f, cpp_lines,
                   hpp_lines, stdout, stderr, exit_status, rerun, prev>>

\* parse_args and the initialisation of the totals.
MainInit ==
    /\ pc = "start"
    /\ dirs' = IF argv = <<>> THEN <<D_dot>> ELSE argv
    /\ total_cpp' = 0
    /\ total_hpp' = 0
    /\ i' = 1
    /\ pc' = "loop"
    /\ UNCHANGED <<argv, disk, walk, w, f, cpp_lines, hpp_lines, stdout,
                   stderr, exit_status, rerun, prev>>

\* InvalidRoot with an exit in place of the continue.
InvalidRoot_Abort ==
    /\ pc = "loop"
    /\ i <= Len(dirs)
    /\ ~IsDir(dirs[i])
    /\ stderr' = Append(stderr, ErrorLine(dirs[i]))
    /\ exit_status' = 1
    /\ pc' = "done"
    /\ UNCHANGED <<argv, disk, dirs, i, total_cpp, total_hpp, walk, w, f,
                   cpp_lines, hpp_lines, stdout, rerun, prev>>

\* A root that is not a directory: report and continue with the next.
InvalidRoot ==
    /\ pc = "loop"
    /\ i <= Len(dirs)
    /\ ~IsDir(dirs[i])
    /\ stderr' = Append(stderr, ErrorLine(dirs[i]))
    /\ i' = i + 1
    /\ UNCHANGED <<argv, disk, pc, dirs, total_cpp, total_hpp, walk, w, f,
                   cpp_lines, hpp_lines, stdout, exit_status, rerun, prev>>

\* BeginScan with the counters of count_lines kept from the previous root.
BeginScan_NoReset ==
    /\ pc = "loop"
    /\ i <= Len(dirs)
    /\ IsDir(dirs[i])
    /\ stdout' = Append(stdout, Banner(dirs[i]))
    /\ walk' = Walk(dirs[i])
    /\ w' = 1
    /\ f' = 1
    /\ pc' = "walk"
    /\ UNCHANGED <<argv, disk, dirs, i, total_cpp, total_hpp, cpp_lines,
                   hpp_lines, stderr, exit_status, rerun, prev>>

\* A directory: print the banner and enter count_lines.
BeginScan ==
    /\ pc = "loop"
    /\ i <= Len(dirs)
    /\ IsDir(dirs[i])
    /\ stdout' = Append(stdout, Banner(dirs[i]))
    /\ cpp_lines' = 0
    /\ hpp_lines' = 0
    /\ walk' = Walk(dirs[i])
    /\ w' = 1
    /\ f' = 1
    /\ pc' = "walk"
    /\ UNCHANGED <<argv, disk, dirs, i, total_cpp, total_hpp, stderr,
                   exit_status, rerun, prev>>

\* The file names of one directory are exhausted: next directory of the walk.
NextDir ==
    /\ pc = "walk"
    /\ w <= Len(walk)
    /\ f > Len(walk[w].filenames)
    /\ w' = w + 1
    /\ f' = 1
    /\ UNCHANGED <<argv, disk, pc, dirs, i, total_cpp, total_hpp, walk,
                   cpp_lines, hpp_lines, stdout, stderr, exit_status, rerun,
                   prev>>

\* A name with neither suffix.
SkipFile ==
    /\ AtFile
    /\ ~Matches(CurName)
    /\ f' = f + 1
    /\ UNCHANGED <<argv, disk, pc, dirs, i, total_cpp, total_hpp, walk, w,
                   cpp_lines, hpp_lines, stdout, stderr, exit_status, rerun,
                   prev>>

\* ReadFail with a break in place of the continue.
ReadFail_Break ==
    /\ AtFile
    /\ Matches(CurName)
    /\ ~Readable(CurPath)
    /\ stderr' = Append(stderr, Warning(CurPath))
    /\ w' = Len(walk) + 1
    /\ f' = 1
    /\ UNCHANGED <<argv, disk, pc, dirs, i, total_cpp, total_hpp, walk,
                   cpp_lines, hpp_lines, stdout, exit_status, rerun, prev>>

\* ReadFail without the except clause: the exception ends the program.
ReadFail_Raise ==
    /\ AtFile
    /\ Matches(CurName)
    /\ ~Readable(CurPath)
    /\ exit_status' = 1
    /\ pc' = "done"
    /\ UNCHANGED <<argv, disk, dirs, i, total_cpp, total_hpp, walk, w, f,
                   cpp_lines, hpp_lines, stdout, stderr, rerun, prev>>

\* A matching file that cannot be opened or read.
ReadFail ==
    /\ AtFile
    /\ Matches(CurName)
    /\ ~Readable(CurPath)
    /\ stderr' = Append(stderr, Warning(CurPath))
    /\ f' = f + 1
    /\ UNCHANGED <<argv, disk, pc, dirs, i, total_cpp, total_hpp, walk, w,
                   cpp_lines, hpp_lines, stdout, exit_status, rerun, prev>>

\* CountFile with the count added to both counters.
CountFile_Both ==
    /\ AtFile
    /\ Matches(CurName)
    /\ Readable(CurPath)
    /\ LET lines == CountLines(Content(CurPath))
       IN  /\ stdout' = Append(stdout, FileLine(CurPath, lines))
           /\ cpp_lines' = cpp_lines + lines
           /\ hpp_lines' = hpp_lines + lines
    /\ f' = f + 1
    /\ UNCHANGED <<argv, disk, pc, dirs, i, total_cpp, total_hpp, walk, w,
                   stderr, exit_status, rerun, prev>>

\* CountFile without the per-file print.
CountFile_NoPrint ==
    /\ AtFile
    /\ Matches(CurName)
    /\ Readable(CurPath)
    /\ LET lines == CountLines(Content(CurPath))
       IN  IF EndsWith(CurName, Str_cpp)
           THEN cpp_lines' = cpp_lines + lines /\ hpp_lines' = hpp_lines
           ELSE hpp_lines' = hpp_lines + lines /\ cpp_lines' = cpp_lines
    /\ f' = f + 1
    /\ UNCHANGED <<argv, disk, pc, dirs, i, total_cpp, total_hpp, walk, w,
                   stdout, stderr, exit_status, rerun, prev>>

\* A matching file that is read: print its count, add it to one counter.
CountFile ==
    /\ AtFile
    /\ Matches(CurName)
    /\ Readable(CurPath)
    /\ LET lines == CountLines(Content(CurPath))
       IN  /\ stdout' = Append(stdout, FileLine(CurPath, lines))
           /\ IF EndsWith(CurName, Str_cpp)
              THEN cpp_lines' = cpp_lines + lines /\ hpp_lines' = hpp_lines
              ELSE hpp_lines' = hpp_lines + lines /\ cpp_lines' = cpp_lines
    /\ f' = f + 1
    /\ UNCHANGED <<argv, disk, pc, dirs, i, total_cpp, total_hpp, walk, w,
                   stderr, exit_status, rerun, prev>>

\* EndScan with the totals assigned, not accumulated.
EndScan_Overwrite ==
    /\ pc = "walk"
    /\ w > Len(walk)
    /\ stdout' = Append(stdout, Summary(dirs[i], cpp_lines, hpp_lines))
    /\ total_cpp' = cpp_lines
    /\ total_hpp' = hpp_lines
    /\ i' = i + 1
    /\ pc' = "loop"
    /\ UNCHANGED <<argv, disk, dirs, walk, w, f, cpp_lines, hpp_lines, stderr,
                   exit_status, rerun, prev>>

\* count_lines returns: print the summary, accumulate, next root.
EndScan ==
    /\ pc = "walk"
    /\ w > Len(walk)
    /\ stdout' = Append(stdout, Summary(dirs[i], cpp_lines, hpp_lines))
    /\ total_cpp' = total_cpp + cpp_lines
    /\ total_hpp' = total_hpp + hpp_lines
    /\ i' = i + 1
    /\ pc' = "loop"
    /\ UNCHANGED <<argv, disk, dirs, walk, w, f, cpp_lines, hpp_lines, stderr,
                   exit_status, rerun, prev>>

\* Finish with the block printed when more than one root was a directory.
Finish_ValidOnly ==
    /\ pc = "loop"
    /\ i > Len(dirs)
    /\ LET grand_total == total_cpp + total_hpp
       IN  stdout' = IF Len(SelectSeq(dirs, IsDir)) > 1
                     THEN stdout \o <<Separator,
                                      Total(Len(dirs), total_cpp, total_hpp,
                                            grand_total)>>
                     ELSE stdout
    /\ exit_status' = 0
    /\ pc' = "done"
    /\ UNCHANGED <<argv, disk, dirs, i, total_cpp, total_hpp, walk, w, f,
                   cpp_lines, hpp_lines, stderr, rerun, prev>>

\* After the last root: the grand-total block, then the end of main.
Finish ==
    /\ pc = "loop"
    /\ i > Len(dirs)
    /\ LET grand_total == total_cpp + total_hpp
       IN  stdout' = IF Len(dirs) > 1
                     THEN stdout \o <<Separator,
                                      Total(Len(dirs), total_cpp, total_hpp,
                                            grand_total)>>
                     ELSE stdout
    /\ exit_status' = 0
    /\ pc' = "done"
    /\ UNCHANGED <<argv, disk, dirs, i, total_cpp, total_hpp, walk, w, f,
                   cpp_lines, hpp_lines, stderr, rerun, prev>>

\* The program is started again on the same arguments and the same tree.
\* Its variables hold no defined value before the code assigns them; the
\* model leaves in them whatever the first run left.
Rerun ==
    /\ pc = "done"
    /\ ~rerun
    /\ rerun' = TRUE
    /\ prev' = [stdout |-> stdout, total_cpp |-> total_cpp,
                total_hpp |-> total_hpp]
    /\ stdout' = <<>>
    /\ stderr' = <<>>
    /\ exit_status' = -1
    /\ pc' = "start"
    /\ UNCHANGED <<argv, disk, dirs, i, total_cpp, total_hpp, walk, w, f,
                   cpp_lines, hpp_lines>>

Next ==
    \/ MainInit
    \/ InvalidRoot
    \/ BeginScan
    \/ NextDir
    \/ SkipFile
    \/ ReadFail
    \/ CountFile
    \/ EndScan
    \/ Finish

Spec == Init /\ [][Next]_vars

\* One run is sequential code: it keeps taking steps until main returns.
FairSpec == Spec /\ WF_vars(Next)

NextTwice == Next \/ Rerun

SpecTwice == Init /\ [][NextTwice]_vars

-----------------------------------------------------------------------------
(* Reading the output streams. *)

IsBanner(r)  == r.kind = "banner"
IsSummary(r) == r.kind = "summary"
IsFile(r)    == r.kind = "file"
IsError(r)   == r.kind = "error"
IsWarning(r) == r.kind = "warning"

HasKind(out, kd) == \E k \in 1..Len(out) : out[k].kind = kd

\* Index of the banner that opens the block position k of out lies in.
BlockStart(out, k) ==
    CHOOSE b \in 1..k :
        /\ out[b].kind = "banner"
        /\ \A j \in (b + 1)..k : out[j].kind # "banner"

\* The per-file lines of the block that position k of out lies in, up to k.
BlockFiles(out, k) == SelectSeq(SubSeq(out, BlockStart(out, k), k), IsFile)

RECURSIVE SumLines(_)
SumLines(s) == IF s = <<>> THEN 0 ELSE Head(s).lines + SumLines(Tail(s))

RECURSIVE SumCpp(_)
SumCpp(s) == IF s = <<>> THEN 0 ELSE Head(s).cpp + SumCpp(Tail(s))

RECURSIVE SumHpp(_)
SumHpp(s) == IF s = <<>> THEN 0 ELSE Head(s).hpp + SumHpp(Tail(s))

DirsOf(s)  == [k \in 1..Len(s) |-> s[k].dir]
PathsOf(s) == [k \in 1..Len(s) |-> s[k].path]

\* The roots among the first n arguments that are directories, in order.
ValidUpTo(n)   == SelectSeq(SubSeq(dirs, 1, n), IsDir)
NotDir(d)      == ~IsDir(d)
InvalidUpTo(n) == SelectSeq(SubSeq(dirs, 1, n), NotDir)

\* Number of roots whose turn in the loop of main is over.
Handled == IF pc = "start" THEN 0 ELSE i - 1

-----------------------------------------------------------------------------
\* C1: while a root is scanned, after every file, the two counters add up to
\* the sum of the counts printed since that root's banner, and every summary
\* printed shows totals that add up to the counts printed in its own block,
\* whatever was scanned before.
C1_CountersMatchPrinted ==
    /\ pc = "walk" =>
          cpp_lines + hpp_lines = SumLines(BlockFiles(stdout, Len(stdout)))
    /\ \A k \in 1..Len(stdout) :
          stdout[k].kind = "summary" =>
              /\ stdout[k].cpp + stdout[k].hpp = SumLines(BlockFiles(stdout, k))
              /\ stdout[k].sum = SumLines(BlockFiles(stdout, k))

\* A later root is being scanned, both counters are positive, and an earlier
\* root printed a positive summary.
C1_Witness ==
    /\ pc = "walk"
    /\ i >= 2
    /\ cpp_lines > 0
    /\ hpp_lines > 0
    /\ \E k \in 1..Len(stdout) : stdout[k].kind = "summary" /\ stdout[k].sum > 0

\* Every file of the tree under root has neither suffix.
NoMatchingUnder(root) ==
    \A k \in 1..Len(Walk(root)) :
        \A n \in 1..Len(Walk(root)[k].filenames) :
            ~Matches(Walk(root)[k].filenames[n])

\* C2: a matching file that is read adds its line count to the .cpp counter
\* if its name ends with ".cpp", otherwise to the .hpp counter, and leaves the
\* other counter alone; a file with neither suffix changes no counter and
\* prints nothing; a root holding only such files gets the summary (0, 0)
\* right after its banner.
C2_OneCounterPerFile ==
    /\ [][ AtFile =>
             /\ (Matches(CurName) /\ Readable(CurPath)) =>
                   LET n == CountLines(Content(CurPath))
                   IN  IF EndsWith(CurName, Str_cpp)
                       THEN cpp_lines' = cpp_lines + n /\ hpp_lines' = hpp_lines
                       ELSE hpp_lines' = hpp_lines + n /\ cpp_lines' = cpp_lines
             /\ ~Matches(CurName) =>
                   UNCHANGED <<cpp_lines, hpp_lines, stdout, stderr>>
         ]_vars
    /\ [](\A k \in 1..Len(stdout) :
            (stdout[k].kind = "summary" /\ NoMatchingUnder(stdout[k].dir)) =>
                /\ stdout[k].cpp = 0
                /\ stdout[k].hpp = 0
                /\ stdout[k - 1].kind = "banner")

\* A file named like "z.cpp.hpp" was counted as .hpp, a .cpp file was counted
\* too, and a root with no matching file has been summarised.
C2_Witness ==
    /\ pc = "walk"
    /\ cpp_lines > 0
    /\ hpp_lines > 0
    /\ stdout[Len(stdout)].kind = "file"
    /\ \E k \in 1..Len(stdout) :
          stdout[k].kind = "summary" /\ NoMatchingUnder(stdout[k].dir)

\* C3: an unreadable matching file puts exactly one warning naming its path
\* on the error stream, prints nothing, changes no counter, and the loop goes
\* on to the next file; the scan of a root ends only when the walk is
\* exhausted.
C3_UnreadableSkipped ==
    [][ /\ (AtFile /\ Matches(CurName) /\ ~Readable(CurPath)) =>
              /\ stderr' = Append(stderr, Warning(CurPath))
              /\ UNCHANGED <<stdout, cpp_lines, hpp_lines, walk, w>>
              /\ f' = f + 1
              /\ pc' = "walk"
        /\ (pc = "walk" /\ pc' # "walk") => w > Len(walk)
      ]_vars

\* a/x.cpp was unreadable and the later file a/sub/y.hpp has been printed.
C3_Witness ==
    /\ pc = "walk"
    /\ \E k \in 1..Len(stderr) : stderr[k] = Warning(P_a_x_cpp)
    /\ Len(stdout) > 0
    /\ stdout[Len(stdout)].kind = "file"
    /\ stdout[Len(stdout)].path = P_a_sub_y_hpp

\* C4: a root that is not a directory puts exactly one error line naming it
\* on the error stream, prints nothing, leaves the grand totals unchanged,
\* and the loop goes on to the next root; no banner or summary ever names
\* such a root, and main ends only when the argument list is exhausted.
C4_InvalidRootSkipped ==
    /\ [][ /\ (pc = "loop" /\ i <= Len(dirs) /\ ~IsDir(dirs[i])) =>
                 /\ stderr' = Append(stderr, ErrorLine(dirs[i]))
                 /\ UNCHANGED <<stdout, total_cpp, total_hpp, dirs>>
                 /\ i' = i + 1
                 /\ pc' = "loop"
           /\ (pc # "done" /\ pc' = "done") => i > Len(dirs)
         ]_vars
    /\ [](/\ \A k \in 1..Len(stdout) :
                stdout[k].kind \in {"banner", "summary"} => IsDir(stdout[k].dir)
          /\ DirsOf(SelectSeq(stderr, IsError)) = InvalidUpTo(Handled))

\* An invalid root was reported and a later root is being scanned.
C4_Witness ==
    /\ pc = "walk"
    /\ \E k \in 1..(i - 1) : ~IsDir(dirs[k])
    /\ HasKind(stderr, "error")
    /\ cpp_lines + hpp_lines > 0

\* C5: the count K of the line "TOTAL across K dirs" is the number of valid
\* roots.
C5_TotalCountsValidRoots ==
    \A k \in 1..Len(stdout) :
        stdout[k].kind = "total" => stdout[k].k = Len(SelectSeq(dirs, IsDir))

\* C6: once main has attempted all roots, the separator and the grand-total
\* line are there if and only if more than one root was given on the command
\* line, and they are never there before.
C6_GrandTotalIffSeveralRoots ==
    /\ pc = "done" =>
          /\ HasKind(stdout, "total") <=> Len(argv) > 1
          /\ HasKind(stdout, "sep") <=> Len(argv) > 1
    /\ pc # "done" => ~HasKind(stdout, "total") /\ ~HasKind(stdout, "sep")

\* Two roots were given, one of them invalid, and the block was printed.
C6_Witness ==
    /\ pc = "done"
    /\ Len(argv) = 2
    /\ Len(SelectSeq(dirs, IsDir)) = 1
    /\ HasKind(stdout, "total")

\* C7: between roots and at the end the running totals are, per category,
\* the sums of the summaries printed so far; there is one summary per valid
\* occurrence in the argument list, in order, duplicates included; the
\* grand-total line shows these sums and their sum.
C7_GrandTotalsAreSums ==
    pc \in {"loop", "done"} =>
        /\ total_cpp = SumCpp(SelectSeq(stdout, IsSummary))
        /\ total_hpp = SumHpp(SelectSeq(stdout, IsSummary))
        /\ DirsOf(SelectSeq(stdout, IsSummary)) = ValidUpTo(Handled)
        /\ \A k \in 1..Len(stdout) :
              stdout[k].kind = "total" =>
                  /\ stdout[k].cpp = SumCpp(SelectSeq(stdout, IsSummary))
                  /\ stdout[k].hpp = SumHpp(SelectSeq(stdout, IsSummary))
                  /\ stdout[k].sum = stdout[k].cpp + stdout[k].hpp

\* The same root was given twice and the grand total counts it twice.
C7_Witness ==
    /\ pc = "done"
    /\ Len(dirs) = 2
    /\ dirs[1] = dirs[2]
    /\ HasKind(stdout, "total")
    /\ stdout[Len(stdout)].cpp > 0
    /\ stdout[Len(stdout)].hpp > 0
    /\ LET ss == SelectSeq(stdout, IsSummary)
       IN  /\ Len(ss) = 2
           /\ stdout[Len(stdout)].cpp = 2 * ss[1].cpp
           /\ stdout[Len(stdout)].hpp = 2 * ss[1].hpp

\* C8: every run reaches the end of main with status 0, having attempted
\* each root once: one banner or one error line per argument.
C8_AlwaysFinishes ==
    <>( /\ pc = "done"
        /\ exit_status = 0
        /\ Len(dirs) = (IF argv = <<>> THEN 1 ELSE Len(argv))
        /\ i = Len(dirs) + 1
        /\ Len(SelectSeq(stdout, IsBanner)) + Len(SelectSeq(stderr, IsError))
              = Len(dirs) )

\* A run that met an invalid root and an unreadable file has ended.
C8_Witness ==
    /\ pc = "done"
    /\ exit_status = 0
    /\ HasKind(stderr, "error")
    /\ HasKind(stderr, "warning")

\* C9: the second run over the same arguments and tree ends with the same
\* standard output and the same totals as the first.
C9_SecondRunIdentical ==
    (rerun /\ pc = "done") =>
        /\ stdout = prev.stdout
        /\ total_cpp = prev.total_cpp
        /\ total_hpp = prev.total_hpp

\* A second run over several roots has ended with a non-zero grand total.
C9_Witness ==
    /\ rerun
    /\ pc = "done"
    /\ HasKind(stdout, "total")
    /\ total_cpp > 0
    /\ total_hpp > 0
    /\ HasKind(stderr, "warning")

\* Number of file names the loops of count_lines have gone past.
RECURSIVE NamesIn(_)
NamesIn(wk) ==
    IF wk = <<>> THEN 0 ELSE Len(Head(wk).filenames) + NamesIn(Tail(wk))

Passed ==
    IF w > Len(walk) THEN NamesIn(walk)
    ELSE NamesIn(SubSeq(walk, 1, w - 1)) + (f - 1)

\* All files of a walk, in the order the loops reach them.
RECURSIVE Flatten(_)
Flatten(wk) ==
    IF wk = <<>> THEN <<>>
    ELSE [n \in 1..Len(Head(wk).filenames) |->
             [name |-> Head(wk).filenames[n],
              path |-> PathJoin(Head(wk).dirpath, Head(wk).filenames[n])]]
         \o Flatten(Tail(wk))

Printable(e) == Matches(e.name) /\ Readable(e.path)

\* C10: standard output is a sequence of blocks in argument order, each a
\* banner, then per-file lines, then a summary of the same root; while a root
\* is scanned the per-file lines printed so far are exactly those of the
\* readable matching files the loop has gone past, in order; the separator
\* and the grand-total line, when printed, are the last two lines.
C10_OutputOrdered ==
    /\ \A k \in 1..Len(stdout) :
          /\ stdout[k].kind = "banner" =>
                k = 1 \/ stdout[k - 1].kind = "summary"
          /\ stdout[k].kind = "file" =>
                k > 1 /\ stdout[k - 1].kind \in {"banner", "file"}
          /\ stdout[k].kind = "summary" =>
                /\ k > 1
                /\ stdout[k - 1].kind \in {"banner", "file"}
                /\ stdout[k].dir = stdout[BlockStart(stdout, k)].dir
          /\ stdout[k].kind = "sep" =>
                /\ k = Len(stdout) - 1
                /\ k = 1 \/ stdout[k - 1].kind = "summary"
          /\ stdout[k].kind = "total" =>
                k = Len(stdout) /\ k > 1 /\ stdout[k - 1].kind = "sep"
    /\ DirsOf(SelectSeq(stdout, IsBanner))
          = ValidUpTo(IF pc = "walk" THEN i ELSE Handled)
    /\ pc = "walk" =>
          PathsOf(BlockFiles(stdout, Len(stdout)))
              = PathsOf(SelectSeq(SubSeq(Flatten(walk), 1, Passed), Printable))
    /\ pc \in {"loop", "done"} /\ Len(stdout) > 0 =>
          stdout[Len(stdout)].kind \in {"summary", "total"}

\* A second root is being scanned after some of its files were printed, with
\* an unreadable file passed over in between.
C10_Witness ==
    /\ pc = "walk"
    /\ HasKind(stdout, "summary")
    /\ Len(BlockFiles(stdout, Len(stdout))) >= 1
    /\ Passed >= 2
    /\ HasKind(stderr, "warning")
    /\ stderr[Len(stderr)].kind = "warning"
    /\ stderr[Len(stderr)].path = P_b_z_cpp_hpp
    /\ stdout[Len(stdout)] = FileLine(P_b_dotcpp, 0)

====
